---- MODULE Spec2Model ----
(***************************************************************************)
(* The four serverless invoice-extraction handlers of the repository,      *)
(* modelled as one state machine that serves one request per behaviour:    *)
(*                                                                         *)
(*   "part_000"  src/unnamed/part_000        batch, PDF only, CSV/Excel    *)
(*   "part_001"  src/unnamed/part_001        single file, PDF -> PNG       *)
(*   "batch"     src/api/extract-invoice.js  lines 21-192, batch           *)
(*   "single"    src/api/extract-invoice.js  lines 199-326, single file    *)
(*                                                                         *)
(* An action is the code that runs between two awaits: the handler entry   *)
(* up to its first await, and then one action per settled promise (the     *)
(* external model call, a backoff timer, a document conversion).  The      *)
(* external model, the converters and the clock are nondeterministic.      *)
(***************************************************************************)
EXTENDS Naturals, Sequences, FiniteSets, TLC

\* ------------------------------------------------------------------ bounds
MaxFiles == 2       \* files in one batch request
MaxFilesNoPost == 1 \* the same, for a method other than POST (only part_000 reads such a body)
MaxCalls == 4       \* the call counter saturates here (part_000 has no bound of its own)
MaxClock == 1       \* Date.now() ranges over 0..MaxClock
MaxInvoices == 2    \* invoices in the list the export flattens
MaxItems == 2       \* line items of one invoice
MaxRequests == 2    \* requests that part_001 serves at the same time

\* ------------------------------------------------------- program constants
maxRetries == 3

Handlers == {"part_000", "part_001", "batch", "single"}
BatchHandlers == {"part_000", "batch"}
RetryHandlers == {"part_000", "part_001", "batch"}
Methods == {"POST", "OPTIONS", "GET"}

\* Declared MIME types of an uploaded document; "" is an absent mimeType.
MimeTypes == {"application/pdf", "image/png", "text/plain", ""}

\* One entry of `files` (or the one document of a single-file body).  isObject
\* is FALSE for a null entry, whose destructuring throws; imageData tells
\* whether the base64 string is present and non-empty.
Entry(o, d, m) == [isObject |-> o, imageData |-> d, mimeType |-> m]

\* The entries of a batch body: a document of each type, an entry without
\* imageData, and null.
Entries ==
    { Entry(TRUE, TRUE, m) : m \in MimeTypes \ {""} }
      \cup { Entry(TRUE, FALSE, "application/pdf"), Entry(FALSE, FALSE, "") }

\* The documents of a single-file body: of each type, and without imageData,
\* without mimeType, without both.
Documents ==
    { Entry(TRUE, TRUE, m) : m \in MimeTypes }
      \cup { Entry(TRUE, FALSE, "application/pdf"), Entry(TRUE, FALSE, "") }

\* Sequences over S of length lo..hi.
SeqsOf(S, lo, hi) == UNION { [1..n -> S] : n \in lo..hi }

\* What the model's text can be, as tokens: a JSON object, the JSON literal
\* null, the object between the markdown fence markers ("fence_json" opens,
\* "fence" closes), and text that is no JSON at all.
Texts == { <<"obj">>, <<"null">>, <<"fence_json", "obj", "fence">>, <<"junk">> }

\* How one await of model.generateContent settles: it throws, or returns a
\* response whose candidates[0].content.parts[0].text is absent (<<>>) or text.
CallOutcomes == { [throws |-> TRUE, text |-> <<>>] }
                  \cup { [throws |-> FALSE, text |-> t] : t \in Texts \cup {<<>>} }

\* JSON.parse of the model's text.
JSONparse(t) ==
    IF t = <<"obj">> THEN [ok |-> TRUE, value |-> "obj"]
    ELSE IF t = <<"null">> THEN [ok |-> TRUE, value |-> "null"]
    ELSE [ok |-> FALSE, value |-> "SyntaxError"]

\* JavaScript truthiness of a parsed value.
Truthy(v) == v # "null" /\ v # "undefined"

RECURSIVE Pow2(_)
Pow2(n) == IF n = 0 THEN 1 ELSE 2 * Pow2(n - 1)

\* Math.pow(2, retries) * 1000 and 2 ** retries * 1000, in milliseconds.
Backoff(r) == Pow2(r) * 1000

VARIABLES
    handler,            \* which of the four handlers serves the request
    method,             \* request.method
    apiKey,             \* process.env.GEMINI_API_KEY is set
    bodyJson,           \* the body is well-formed JSON
    filesShape,         \* "array", "notarray" or "missing" (batch); "single"
    files,              \* the entries of body.files, or the one document
    pc,                 \* position of the handler's main flow
    fpc,                \* per file: position of its pipeline
    retries,            \* per file: the loop's `retries`
    calls,              \* per file: model.generateContent calls issued (saturating)
    result,             \* per file: text of the last `result` (part_000: aiResponse) assigned, <<>> if none
    waits,              \* per file: the backoff delays awaited, in order
    extractedInvoices,  \* the batch result array
    completed,          \* file indexes in the order their pipelines settled
    responses,          \* the responses sent, in order
    disk,               \* temporary files that exist under /tmp
    tempPdfPath,        \* part_001: Date.now() of the PDF path
    tempPngPath,        \* part_001: Date.now() of the PNG path read back
    outPrefix           \* part_001: Date.now() of the converter's out_prefix

vars == <<handler, method, apiKey, bodyJson, filesShape, files, pc, fpc, retries,
          calls, result, waits, extractedInvoices, completed, responses, disk,
          tempPdfPath, tempPngPath, outPrefix>>

request == <<handler, method, apiKey, bodyJson, filesShape, files>>
tempPaths == <<tempPdfPath, tempPngPath, outPrefix>>

Files == DOMAIN files
Responded == Len(responses) > 0

\* /tmp/invoice-<t>.pdf and /tmp/invoice-<t>-1.png
PdfFile(t) == <<"pdf", t>>
PngFile(t) == <<"png", t>>

Init ==
    /\ handler \in Handlers
    /\ method \in Methods
    /\ apiKey \in BOOLEAN
    /\ bodyJson \in BOOLEAN
    /\ IF handler \in BatchHandlers
         THEN /\ filesShape \in {"array", "notarray", "missing"}
              /\ files \in IF filesShape = "array"
                             THEN SeqsOf(Entries, 0, IF method = "POST" THEN MaxFiles
                                                     ELSE MaxFilesNoPost)
                             ELSE {<<>>}
         ELSE /\ filesShape = "single"
              /\ files \in { <<e>> : e \in Documents }
    /\ pc = "start"
    /\ fpc = [i \in DOMAIN files |-> "idle"]
    /\ retries = [i \in DOMAIN files |-> 0]
    /\ calls = [i \in DOMAIN files |-> 0]
    /\ result = [i \in DOMAIN files |-> <<>>]
    /\ waits = [i \in DOMAIN files |-> <<>>]
    /\ extractedInvoices = <<>>
    /\ completed = <<>>
    /\ responses = <<>>
    /\ disk = {}
    /\ tempPdfPath = 0
    /\ tempPngPath = 0
    /\ outPrefix = 0

\* response.status(s).json(b)
Send(s, b) ==
    responses' = Append(responses, [status |-> s, hasBody |-> TRUE, body |-> b])

\* response.status(s).end()
SendEnd(s) ==
    responses' = Append(responses, [status |-> s, hasBody |-> FALSE,
                                    body |-> [empty |-> TRUE]])

\* The loop issues model.generateContent for file i: one more call.  The
\* counter is exact up to MaxCalls; from there it alternates between MaxCalls
\* and MaxCalls + 1, both meaning "at least MaxCalls", so that a further call
\* is still a change of state.
IssueCall(c, i) ==
    [c EXCEPT ![i] = IF c[i] <= MaxCalls THEN c[i] + 1 ELSE MaxCalls]


\* A push that puts the entry at the front of the array.
PushFront(arr, i, v) == <<[src |-> i, value |-> v]>> \o arr

\* extractedInvoices.push(v) by the pipeline of file i (src records the file
\* the entry was produced for; the array itself holds only the values).
Push(arr, i, v) == Append(arr, [src |-> i, value |-> v])

\* The lowest index whose pipeline is rejected: Promise.all rejects with the
\* first rejection.
FirstRejected(f) == CHOOSE i \in DOMAIN f : f[i] = "rejected" /\ \A j \in DOMAIN f : f[j] = "rejected" => i <= j

(***************************************************************************)
(* src/api/extract-invoice.js, lines 21-192: the batch handler.            *)
(***************************************************************************)

\* The synchronous part of the files.map callback for entry e: destructuring
\* a null entry throws, anything else reaches the first generateContent.
BatchCallbackStart(e) == IF e.isObject THEN "calling" ELSE "rejected"

\* The handler from its entry to `await Promise.all(...)`.
BatchStart ==
    /\ handler = "batch" /\ pc = "start"
    /\ IF method = "OPTIONS" THEN
          /\ SendEnd(200) /\ pc' = "done" /\ UNCHANGED <<fpc, calls>>
       ELSE IF method # "POST" THEN
          /\ Send(405, [message |-> "Method Not Allowed"])
          /\ pc' = "done" /\ UNCHANGED <<fpc, calls>>
       ELSE IF ~apiKey THEN
          /\ Send(500, [error |-> "API key is not configured on the server."])
          /\ pc' = "done" /\ UNCHANGED <<fpc, calls>>
       ELSE IF ~bodyJson THEN
          \* `const { files } = request.body` throws: the top-level catch
          /\ Send(500, [error |-> "Failed to process invoice.", details |-> "TypeError"])
          /\ pc' = "done" /\ UNCHANGED <<fpc, calls>>
       ELSE IF filesShape # "array" \/ Len(files) = 0 THEN
          /\ Send(400, [error |-> "Missing or invalid file array in request body."])
          /\ pc' = "done" /\ UNCHANGED <<fpc, calls>>
       ELSE
          /\ fpc' = [i \in Files |-> BatchCallbackStart(files[i])]
          /\ calls' = [i \in Files |-> IF files[i].isObject THEN 1 ELSE 0]
          /\ IF \E i \in Files : ~files[i].isObject
               THEN /\ Send(500, [error |-> "Failed to process invoice.",
                                  details |-> "TypeError"])
                    /\ pc' = "done"
               ELSE /\ pc' = "awaitAll" /\ UNCHANGED responses
    /\ UNCHANGED <<request, retries, result, waits, extractedInvoices, completed,
                   disk, tempPaths>>

\* The entry the batch pipeline pushes once its retry loop is over, from the
\* text of the last `result` assigned.
BatchEntry(text) ==
    IF text = <<>> THEN [error |-> "AI extraction failed after multiple retries."]
    ELSE IF JSONparse(text).ok THEN [data |-> JSONparse(text).value]
    ELSE [error |-> "AI returned a response that could not be parsed."]

\* The end of the callback without the `return` of line 171: after the push
\* for an exhausted call, JSON.parse(undefined) throws and its catch pushes again.
BatchFinishNoReturn(i, text) ==
    /\ extractedInvoices' =
         IF text = <<>>
           THEN Push(Push(extractedInvoices, i, BatchEntry(text)), i,
                     [error |-> "AI returned a response that could not be parsed."])
           ELSE Push(extractedInvoices, i, BatchEntry(text))
    /\ completed' = Append(completed, i)
    /\ fpc' = [fpc EXCEPT ![i] = "resolved"]

\* After the loop of file i (lines 165-180): exactly one push, then the
\* callback returns.
BatchFinish(i, text) ==
    /\ extractedInvoices' = Push(extractedInvoices, i, BatchEntry(text))
    /\ completed' = Append(completed, i)
    /\ fpc' = [fpc EXCEPT ![i] = "resolved"]

\* The await of generateContent for file i settles with outcome o; the loop
\* body runs on to the next await or to the end of the callback.
BatchCallSettle(i, o) ==
    /\ handler = "batch" /\ fpc[i] = "calling"
    /\ LET text == IF o.throws THEN result[i] ELSE o.text IN
       /\ result' = [result EXCEPT ![i] = text]
       /\ IF ~o.throws /\ o.text # <<>> THEN
             \* break
             /\ BatchFinish(i, text)
             /\ UNCHANGED <<retries, waits>>
          ELSE
             /\ retries' = [retries EXCEPT ![i] = @ + 1]
             /\ IF retries[i] + 1 < maxRetries THEN
                   /\ waits' = [waits EXCEPT ![i] = Append(@, Backoff(retries[i] + 1))]
                   /\ fpc' = [fpc EXCEPT ![i] = "waiting"]
                   /\ UNCHANGED <<extractedInvoices, completed>>
                ELSE
                   /\ BatchFinish(i, text)
                   /\ UNCHANGED waits
    /\ UNCHANGED <<request, pc, calls, responses, disk, tempPaths>>

\* The sleep(delay) of file i is over: the loop condition holds (the wait is
\* only started while retries < maxRetries) and the next call is issued.
BatchTimer(i) ==
    /\ handler = "batch" /\ fpc[i] = "waiting"
    /\ fpc' = [fpc EXCEPT ![i] = "calling"]
    /\ calls' = IssueCall(calls, i)
    /\ UNCHANGED <<request, pc, retries, result, waits, extractedInvoices, completed,
                   responses, disk, tempPaths>>

\* Promise.all resolved: line 183.
BatchRespond ==
    /\ handler = "batch" /\ pc = "awaitAll"
    /\ \A i \in Files : fpc[i] = "resolved"
    /\ Send(200, [invoices |-> extractedInvoices])
    /\ pc' = "done"
    /\ UNCHANGED <<request, fpc, retries, calls, result, waits, extractedInvoices,
                   completed, disk, tempPaths>>

(***************************************************************************)
(* src/api/extract-invoice.js, lines 199-326: the single-file handler.     *)
(* It calls the model once, with no retry.                                 *)
(***************************************************************************)

\* `!imageData || !mimeType`
MissingFields(e) == ~e.imageData \/ e.mimeType = ""

\* The handler from its entry to `await model.generateContent(...)`.
SingleStart ==
    /\ handler = "single" /\ pc = "start"
    /\ IF method = "OPTIONS" THEN
          /\ SendEnd(200) /\ pc' = "done" /\ UNCHANGED <<fpc, calls>>
       ELSE IF method # "POST" THEN
          /\ Send(405, [message |-> "Method Not Allowed"])
          /\ pc' = "done" /\ UNCHANGED <<fpc, calls>>
       ELSE IF ~apiKey THEN
          /\ Send(500, [error |-> "API key is not configured on the server."])
          /\ pc' = "done" /\ UNCHANGED <<fpc, calls>>
       ELSE IF ~bodyJson THEN
          \* `const { imageData, mimeType } = request.body` throws
          /\ Send(500, [error |-> "Failed to process invoice.", details |-> "TypeError"])
          /\ pc' = "done" /\ UNCHANGED <<fpc, calls>>
       ELSE IF MissingFields(files[1]) THEN
          /\ Send(400, [error |-> "Missing imageData or mimeType in request body."])
          /\ pc' = "done" /\ UNCHANGED <<fpc, calls>>
       ELSE
          /\ fpc' = [fpc EXCEPT ![1] = "calling"]
          /\ calls' = IssueCall(calls, 1)
          /\ pc' = "pipeline"
          /\ UNCHANGED responses
    /\ UNCHANGED <<request, retries, result, waits, extractedInvoices, completed,
                   disk, tempPaths>>

\* The one await of generateContent settles with outcome o (lines 270-324).
SingleCallSettle(o) ==
    /\ handler = "single" /\ pc = "pipeline" /\ fpc[1] = "calling"
    /\ result' = [result EXCEPT ![1] = o.text]
    /\ IF o.throws THEN
          /\ Send(500, [error |-> "Failed to process invoice.", details |-> "call failed"])
          /\ fpc' = [fpc EXCEPT ![1] = "rejected"]
       ELSE IF o.text = <<>> THEN
          /\ Send(500, [error |-> "Failed to process AI response.",
                        details |-> "Unexpected or empty response from the AI model."])
          /\ fpc' = [fpc EXCEPT ![1] = "resolved"]
       ELSE IF JSONparse(o.text).ok THEN
          /\ Send(200, [data |-> JSONparse(o.text).value])
          /\ fpc' = [fpc EXCEPT ![1] = "resolved"]
       ELSE
          \* JSON.parse throws into the top-level catch
          /\ Send(500, [error |-> "Failed to process invoice.", details |-> "SyntaxError"])
          /\ fpc' = [fpc EXCEPT ![1] = "rejected"]
    /\ pc' = "done"
    /\ completed' = Append(completed, 1)
    /\ UNCHANGED <<request, retries, calls, waits, extractedInvoices, disk, tempPaths>>

(***************************************************************************)
(* src/unnamed/part_001: the single-file handler that converts a PDF to a  *)
(* PNG through temporary files before it calls the model with retries.     *)
(***************************************************************************)

\* The handler from its entry to its first await: poppler.convert for a
\* PDF, model.generateContent otherwise.  t1, t2, t3 are the three values
\* of Date.now() (lines 50, 51, 60), which the clock may advance between.
Part001Start(t1, t2, t3) ==
    /\ handler = "part_001" /\ pc = "start"
    /\ t1 <= t2 /\ t2 <= t3
    /\ IF method = "OPTIONS" THEN
          /\ SendEnd(200) /\ pc' = "done"
          /\ UNCHANGED <<fpc, calls, disk, tempPaths>>
       ELSE IF method # "POST" THEN
          /\ Send(405, [message |-> "Method Not Allowed"])
          /\ pc' = "done" /\ UNCHANGED <<fpc, calls, disk, tempPaths>>
       ELSE IF ~bodyJson THEN
          /\ Send(400, [error |-> "Invalid JSON payload."])
          /\ pc' = "done" /\ UNCHANGED <<fpc, calls, disk, tempPaths>>
       ELSE IF ~apiKey THEN
          /\ Send(500, [error |-> "API key is not configured on the server."])
          /\ pc' = "done" /\ UNCHANGED <<fpc, calls, disk, tempPaths>>
       ELSE IF MissingFields(files[1]) THEN
          /\ Send(400, [error |-> "Missing imageData or mimeType in request body."])
          /\ pc' = "done" /\ UNCHANGED <<fpc, calls, disk, tempPaths>>
       ELSE IF files[1].mimeType = "application/pdf" THEN
          /\ tempPdfPath' = t1 /\ tempPngPath' = t2 /\ outPrefix' = t3
          /\ disk' = disk \cup {PdfFile(t1)}            \* fs.writeFileSync
          /\ fpc' = [fpc EXCEPT ![1] = "convert"]
          /\ pc' = "pipeline"
          /\ UNCHANGED <<calls, responses>>
       ELSE
          /\ fpc' = [fpc EXCEPT ![1] = "calling"]
          /\ calls' = IssueCall(calls, 1)
          /\ pc' = "pipeline"
          /\ UNCHANGED <<responses, disk, tempPaths>>
    /\ UNCHANGED <<request, retries, result, waits, extractedInvoices, completed>>

\* The top-level catch of part_001 (lines 189-195).
Part001Catch(msg) ==
    /\ Send(500, [error |-> "Failed to process invoice.", details |-> msg])
    /\ fpc' = [fpc EXCEPT ![1] = "rejected"]
    /\ pc' = "done"
    /\ completed' = Append(completed, 1)

\* The temporary files left once the PNG was read: both are unlinked
\* (lines 74-75).
Part001Cleanup(d) == d \ {PdfFile(tempPdfPath), PngFile(tempPngPath)}

\* await poppler.convert settles (lines 57-76): it throws, or it has written
\* <out_prefix>-1.png; the handler then reads <tempPngPath>-1.png, unlinks
\* both temporary files and issues the first model call.
Part001ConvertSettle(ok) ==
    /\ handler = "part_001" /\ pc = "pipeline" /\ fpc[1] = "convert"
    /\ IF ~ok THEN
          /\ Part001Catch("convert failed")
          /\ UNCHANGED <<disk, calls>>
       ELSE IF PngFile(tempPngPath) \notin disk \cup {PngFile(outPrefix)} THEN
          \* fs.readFileSync throws ENOENT
          /\ disk' = disk \cup {PngFile(outPrefix)}
          /\ Part001Catch("ENOENT")
          /\ UNCHANGED calls
       ELSE
          /\ disk' = Part001Cleanup(disk \cup {PngFile(outPrefix)})
          /\ fpc' = [fpc EXCEPT ![1] = "calling"]
          /\ calls' = IssueCall(calls, 1)
          /\ UNCHANGED <<pc, responses, completed>>
    /\ UNCHANGED <<request, retries, result, waits, extractedInvoices, tempPaths>>

\* After the loop (lines 168-187): the response for the text of the last
\* `result` assigned.
Part001Finish(text) ==
    /\ IF text = <<>> THEN
          Send(500, [error |-> "Failed to process AI response.",
                     details |-> "The AI model returned an unexpected or empty response after multiple retries."])
       ELSE IF JSONparse(text).ok THEN
          Send(200, [data |-> JSONparse(text).value])
       ELSE
          Send(500, [error |-> "Failed to parse AI response.",
                     details |-> "The AI returned a response that could not be parsed as valid JSON."])
    /\ fpc' = [fpc EXCEPT ![1] = "resolved"]
    /\ pc' = "done"
    /\ completed' = Append(completed, 1)

\* The await of generateContent settles with outcome o (lines 120-166).
Part001CallSettle(o) ==
    /\ handler = "part_001" /\ pc = "pipeline" /\ fpc[1] = "calling"
    /\ LET text == IF o.throws THEN result[1] ELSE o.text IN
       /\ result' = [result EXCEPT ![1] = text]
       /\ IF ~o.throws /\ o.text # <<>> THEN
             \* break
             /\ Part001Finish(text)
             /\ UNCHANGED <<retries, waits>>
          ELSE
             /\ retries' = [retries EXCEPT ![1] = @ + 1]
             /\ IF retries[1] + 1 < maxRetries THEN
                   /\ waits' = [waits EXCEPT ![1] = Append(@, Backoff(retries[1] + 1))]
                   /\ fpc' = [fpc EXCEPT ![1] = "waiting"]
                   /\ UNCHANGED <<pc, responses, completed>>
                ELSE
                   /\ Part001Finish(text)
                   /\ UNCHANGED waits
    /\ UNCHANGED <<request, calls, extractedInvoices, disk, tempPaths>>

\* The backoff timer fires: the loop condition holds and the next call is
\* issued.
Part001Timer ==
    /\ handler = "part_001" /\ pc = "pipeline" /\ fpc[1] = "waiting"
    /\ fpc' = [fpc EXCEPT ![1] = "calling"]
    /\ calls' = IssueCall(calls, 1)
    /\ UNCHANGED <<request, pc, retries, result, waits, extractedInvoices, completed,
                   responses, disk, tempPaths>>

(***************************************************************************)
(* src/unnamed/part_000: the batch handler that accepts PDFs only and      *)
(* returns the invoices with their CSV and Excel exports.  Its method      *)
(* checks are elided in the source, so every method reaches the try.       *)
(***************************************************************************)

\* The synchronous part of the files.map callback for entry e (lines 60-67):
\* "" when it reaches `await PDFDocument.load`, else the message of the
\* error it throws.
Part000CallbackError(e) ==
    IF ~e.isObject THEN "TypeError"
    ELSE IF e.mimeType # "application/pdf" THEN "Only PDFs are supported."
    ELSE IF ~e.imageData THEN "TypeError"            \* Buffer.from(undefined)
    ELSE ""

\* The indexes of f, in order, whose pipeline is rejected.
RejectedInOrder(f) ==
    SelectSeq([i \in 1..Len(files) |-> i], LAMBDA i : f[i] = "rejected")

\* The handler from its entry to `await Promise.all(...)`.
Part000Start ==
    /\ handler = "part_000" /\ pc = "start"
    /\ IF ~bodyJson THEN
          \* JSON.parse(rawBody) throws into the top-level catch
          /\ Send(500, [error |-> "SyntaxError"])
          /\ pc' = "done" /\ UNCHANGED <<fpc, completed>>
       ELSE IF filesShape # "array" \/ Len(files) = 0 THEN
          /\ Send(400, [error |-> "No files provided or invalid format."])
          /\ pc' = "done" /\ UNCHANGED <<fpc, completed>>
       ELSE IF ~apiKey THEN
          /\ Send(500, [error |-> "API key missing."])
          /\ pc' = "done" /\ UNCHANGED <<fpc, completed>>
       ELSE
          LET f == [i \in Files |-> IF Part000CallbackError(files[i]) = ""
                                      THEN "load" ELSE "rejected"] IN
          /\ fpc' = f
          /\ completed' = RejectedInOrder(f)
          /\ IF \E i \in Files : f[i] = "rejected"
               THEN /\ Send(500, [error |-> Part000CallbackError(files[FirstRejected(f)])])
                    /\ pc' = "done"
               ELSE /\ pc' = "awaitAll" /\ UNCHANGED responses
    /\ UNCHANGED <<request, retries, calls, result, waits, extractedInvoices,
                   disk, tempPaths>>

\* The callback of file i throws msg with no catch around the await of
\* Promise.all: the handler ends there and nothing is sent.
Part000RejectUncaught(i, msg) ==
    /\ fpc' = [fpc EXCEPT ![i] = "rejected"]
    /\ completed' = Append(completed, i)
    /\ pc' = IF pc = "awaitAll" THEN "done" ELSE pc
    /\ UNCHANGED responses

\* The callback of file i throws msg and every rejection is answered, as if
\* each callback had a catch of its own that responds.
Part000RejectRespond(i, msg) ==
    /\ fpc' = [fpc EXCEPT ![i] = "rejected"]
    /\ completed' = Append(completed, i)
    /\ Send(500, [error |-> msg]) /\ pc' = "done"

\* The callback of file i throws msg: its promise rejects, and the first
\* rejection rejects Promise.all, which lands in the top-level catch
\* (lines 211-214).  The other pipelines are not cancelled.
Part000Reject(i, msg) ==
    /\ fpc' = [fpc EXCEPT ![i] = "rejected"]
    /\ completed' = Append(completed, i)
    /\ IF pc = "awaitAll"
         THEN /\ Send(500, [error |-> msg]) /\ pc' = "done"
         ELSE UNCHANGED <<pc, responses>>

\* The PDF -> PNG conversion of file i (lines 67-76: pdf-lib, sharp) settles;
\* on success the retry loop issues its first call.
Part000ConvertSettle(i, ok) ==
    /\ handler = "part_000" /\ fpc[i] = "load"
    /\ IF ok
         THEN /\ fpc' = [fpc EXCEPT ![i] = "calling"]
              /\ calls' = IssueCall(calls, i)
              /\ UNCHANGED <<pc, responses, completed>>
         ELSE /\ Part000Reject(i, "conversion failed")
              /\ UNCHANGED calls
    /\ UNCHANGED <<request, retries, result, waits, extractedInvoices, disk, tempPaths>>

\* Whether the try block of the loop throws for outcome o: the call threw,
\* or JSON.parse of its text did (line 126 is inside the try).
Part000TryThrows(o) == o.throws \/ (o.text # <<>> /\ ~JSONparse(o.text).ok)

\* The await of generateContent for file i settles with outcome o
\* (lines 92-137).  `retries` changes only in the catch.
Part000CallSettle(i, o) ==
    /\ handler = "part_000" /\ fpc[i] = "calling"
    \* `result` is local to one turn of the loop; what outlives it is
    \* aiResponse = JSON.parse(extractedText), kept here as its text
    /\ result' = [result EXCEPT ![i] = IF Part000TryThrows(o) THEN @ ELSE o.text]
    /\ IF Part000TryThrows(o) THEN
          \* catch: retries++, then the wait, whatever retries has become
          /\ retries' = [retries EXCEPT ![i] = @ + 1]
          /\ waits' = [waits EXCEPT ![i] = Append(@, Backoff(retries[i] + 1))]
          /\ fpc' = [fpc EXCEPT ![i] = "waiting"]
          /\ UNCHANGED <<pc, calls, extractedInvoices, completed, responses>>
       ELSE IF o.text = <<>> THEN
          \* no text and no exception: the loop turns with retries unchanged
          /\ calls' = IssueCall(calls, i)
          /\ UNCHANGED <<pc, fpc, retries, waits, extractedInvoices, completed, responses>>
       ELSE IF Truthy(JSONparse(o.text).value) THEN
          \* break, then the push
          /\ extractedInvoices' = Push(extractedInvoices, i, [data |-> JSONparse(o.text).value])
          /\ fpc' = [fpc EXCEPT ![i] = "resolved"]
          /\ completed' = Append(completed, i)
          /\ UNCHANGED <<pc, retries, calls, waits, responses>>
       ELSE
          \* break with a falsy aiResponse: line 135 throws
          /\ Part000Reject(i, "AI extraction failed after retries.")
          /\ UNCHANGED <<retries, calls, waits, extractedInvoices>>
    /\ UNCHANGED <<request, disk, tempPaths>>

\* The backoff timer of file i fires: the loop goes on while
\* retries < maxRetries, else line 135 throws.
Part000Timer(i) ==
    /\ handler = "part_000" /\ fpc[i] = "waiting"
    /\ IF retries[i] < maxRetries
         THEN /\ fpc' = [fpc EXCEPT ![i] = "calling"]
              /\ calls' = IssueCall(calls, i)
              /\ UNCHANGED <<pc, responses, completed>>
         ELSE /\ Part000Reject(i, "AI extraction failed after retries.")
              /\ UNCHANGED calls
    /\ UNCHANGED <<request, retries, result, waits, extractedInvoices, disk, tempPaths>>

\* The invoice-level and the item-level columns of an export row.
HeaderFields == {"invoiceNumber", "vendorName", "invoiceDate", "dueDate",
                 "totalAmount", "currency"}
ItemFields == {"product", "quantity", "unitPrice", "totalPrice"}

\* The property read o.f of JavaScript: undefined when o has no such property.
Get(o, f) == IF f \in DOMAIN o THEN o[f] ELSE "undefined"

\* The record pushed for invoice inv and line item `item` (lines 147-158).
ItemRow(inv, item) ==
    [f \in HeaderFields \cup ItemFields |->
        IF f \in HeaderFields THEN Get(inv, f) ELSE Get(item, f)]

\* The record pushed for an invoice without line items (lines 161-172).
NullRow(inv) ==
    [f \in HeaderFields \cup ItemFields |->
        IF f \in HeaderFields THEN Get(inv, f) ELSE "null"]

\* The rows of an invoice when the else branch of line 160 is missing: an
\* invoice without line items gives no row.
InvoiceRowsNoElse(inv) ==
    IF "lineItems" \in DOMAIN inv
      THEN [j \in 1..Len(inv.lineItems) |-> ItemRow(inv, inv.lineItems[j])]
      ELSE <<>>

\* One turn of extractedInvoices.forEach (lines 144-173): the rows pushed
\* for invoice inv.
InvoiceRows(inv) ==
    IF "lineItems" \in DOMAIN inv /\ Len(inv.lineItems) > 0
      THEN [j \in 1..Len(inv.lineItems) |-> ItemRow(inv, inv.lineItems[j])]
      ELSE <<NullRow(inv)>>

\* csvRecords once the forEach over arr is over (lines 143-174).
RECURSIVE csvRecords(_)
csvRecords(arr) ==
    IF arr = <<>> THEN <<>>
    ELSE csvRecords(SubSeq(arr, 1, Len(arr) - 1)) \o InvoiceRows(arr[Len(arr)].value)

\* Promise.all resolved (lines 140-209): the exports are built and the
\* response is sent; an exception of the export libraries lands in the catch.
\* The CSV text and the workbook stand for the rows they are made of.
Part000Export(ok) ==
    /\ handler = "part_000" /\ pc = "awaitAll"
    /\ \A i \in Files : fpc[i] = "resolved"
    /\ IF ok
         THEN Send(200, [invoices |-> extractedInvoices,
                         csv |-> csvRecords(extractedInvoices),
                         excel |-> csvRecords(extractedInvoices)])
         ELSE Send(500, [error |-> "export failed"])
    /\ pc' = "done"
    /\ UNCHANGED <<request, fpc, retries, calls, result, waits, extractedInvoices,
                   completed, disk, tempPaths>>

\* ------------------------------------------------------------ specification

Clock == 0..MaxClock

Next ==
    \/ BatchStart
    \/ \E i \in Files, o \in CallOutcomes : BatchCallSettle(i, o)
    \/ \E i \in Files : BatchTimer(i)
    \/ BatchRespond
    \/ SingleStart
    \/ \E o \in CallOutcomes : SingleCallSettle(o)
    \/ \E t1, t2, t3 \in Clock : Part001Start(t1, t2, t3)
    \/ \E ok \in BOOLEAN : Part001ConvertSettle(ok)
    \/ \E o \in CallOutcomes : Part001CallSettle(o)
    \/ Part001Timer
    \/ Part000Start
    \/ \E i \in Files, ok \in BOOLEAN : Part000ConvertSettle(i, ok)
    \/ \E i \in Files, o \in CallOutcomes : Part000CallSettle(i, o)
    \/ \E i \in Files : Part000Timer(i)
    \/ \E ok \in BOOLEAN : Part000Export(ok)

Spec == Init /\ [][Next]_vars

\* Every external call eventually returns or throws, every timer eventually
\* fires, and the event loop runs every continuation that is ready: weak
\* fairness of each step, per file.  How a call settles stays free.
Fairness ==
    /\ WF_vars(BatchStart) /\ WF_vars(BatchRespond)
    /\ WF_vars(SingleStart) /\ WF_vars(\E o \in CallOutcomes : SingleCallSettle(o))
    /\ WF_vars(\E t1, t2, t3 \in Clock : Part001Start(t1, t2, t3))
    /\ WF_vars(\E ok \in BOOLEAN : Part001ConvertSettle(ok))
    /\ WF_vars(\E o \in CallOutcomes : Part001CallSettle(o))
    /\ WF_vars(Part001Timer)
    /\ WF_vars(Part000Start) /\ WF_vars(\E ok \in BOOLEAN : Part000Export(ok))
    /\ \A i \in 1..MaxFiles :
          /\ WF_vars(i \in Files /\ \E o \in CallOutcomes : BatchCallSettle(i, o))
          /\ WF_vars(i \in Files /\ BatchTimer(i))
          /\ WF_vars(i \in Files /\ \E ok \in BOOLEAN : Part000ConvertSettle(i, ok))
          /\ WF_vars(i \in Files /\ \E o \in CallOutcomes : Part000CallSettle(i, o))
          /\ WF_vars(i \in Files /\ Part000Timer(i))

FairSpec == Spec /\ Fairness

\* ------------------------------------------------- the export, on its own

\* The line items and the invoices the model can have returned, after the
\* schema of the prompt (part_000 lines 32-46); lineItems may be absent.
LineItems ==
    { [product |-> p, quantity |-> "1", unitPrice |-> "5", totalPrice |-> "5"] :
        p \in {"bolt", "nut"} }

InvoiceHeaders ==
    { [invoiceNumber |-> n, vendorName |-> "acme", invoiceDate |-> "2024-01-01",
       dueDate |-> "2024-02-01", totalAmount |-> "10", currency |-> "EUR"] :
        n \in {"INV-1", "INV-2"} }

ExtractedObjects ==
    InvoiceHeaders
      \cup { [f \in DOMAIN h \cup {"lineItems"} |->
                  IF f = "lineItems" THEN items ELSE h[f]] :
               h \in InvoiceHeaders, items \in SeqsOf(LineItems, 0, MaxItems) }

\* part_000 at line 140: Promise.all has resolved, every pipeline has pushed
\* the object its one call returned.
FlattenInit ==
    /\ handler = "part_000" /\ method = "POST"
    /\ apiKey = TRUE /\ bodyJson = TRUE
    /\ filesShape = "array"
    /\ files \in SeqsOf({Entry(TRUE, TRUE, "application/pdf")}, 1, MaxInvoices)
    /\ pc = "awaitAll"
    /\ fpc = [i \in DOMAIN files |-> "resolved"]
    /\ retries = [i \in DOMAIN files |-> 0]
    /\ calls = [i \in DOMAIN files |-> 1]
    /\ result = [i \in DOMAIN files |-> <<"obj">>]
    /\ waits = [i \in DOMAIN files |-> <<>>]
    /\ \E objs \in [DOMAIN files -> ExtractedObjects] :
          extractedInvoices = [i \in DOMAIN files |-> [src |-> i, value |-> objs[i]]]
    /\ completed = [i \in DOMAIN files |-> i]
    /\ responses = <<>>
    /\ disk = {}
    /\ tempPdfPath = 0 /\ tempPngPath = 0 /\ outPrefix = 0

FlattenNext == \E ok \in BOOLEAN : Part000Export(ok)

FlattenSpec == FlattenInit /\ [][FlattenNext]_vars

\* ------------------------------- part_001 serving several requests at once

\* The requests share /tmp and the clock of the process.  Request r is given
\* by files[r]; fpc[r], calls[r], tempPdfPath[r], tempPngPath[r] and
\* outPrefix[r] are its position, its calls and its three path stamps.  Every
\* request is a POST with a well-formed body and the key set, followed from
\* line 46 to its first model call.  A file on disk is kept with the request
\* whose document it holds.
Requests == 1..MaxRequests

FileOf(f, r) == [file |-> f, of |-> r]
FileExists(d, f) == \E x \in d : x.file = f
ContentOf(d, f) == (CHOOSE x \in d : x.file = f).of

\* fs.writeFileSync and the converter's output replace what the path held.
WriteFile(d, f, r) == {x \in d : x.file # f} \cup {FileOf(f, r)}

\* fs.unlinkSync
UnlinkFile(d, f) == {x \in d : x.file # f}

ConcInit ==
    /\ handler = "part_001" /\ method = "POST"
    /\ apiKey = TRUE /\ bodyJson = TRUE
    /\ filesShape = "single"
    /\ files \in [Requests -> {Entry(TRUE, TRUE, "application/pdf"),
                               Entry(TRUE, TRUE, "image/png")}]
    /\ pc = "pipeline"
    /\ fpc = [r \in Requests |-> "idle"]
    /\ retries = [r \in Requests |-> 0]
    /\ calls = [r \in Requests |-> 0]
    /\ result = [r \in Requests |-> <<>>]
    /\ waits = [r \in Requests |-> <<>>]
    /\ extractedInvoices = <<>>
    /\ completed = <<>>
    /\ responses = <<>>
    /\ disk = {}
    /\ tempPdfPath = [r \in Requests |-> 0]
    /\ tempPngPath = [r \in Requests |-> 0]
    /\ outPrefix = [r \in Requests |-> 0]

\* Request r has been through lines 50-60 and holds its path stamps.
Stamped(r) == fpc[r] # "idle" /\ files[r].mimeType = "application/pdf"

\* Lines 47-63 for request r, in one turn of the event loop: the three
\* Date.now() are t1 <= t2 <= t3, none before a stamp taken earlier.
ConcStart(r, t1, t2, t3) ==
    /\ fpc[r] = "idle"
    /\ t1 <= t2 /\ t2 <= t3
    /\ \A q \in Requests : Stamped(q) => outPrefix[q] <= t1
    /\ IF files[r].mimeType = "application/pdf" THEN
          /\ tempPdfPath' = [tempPdfPath EXCEPT ![r] = t1]
          /\ tempPngPath' = [tempPngPath EXCEPT ![r] = t2]
          /\ outPrefix' = [outPrefix EXCEPT ![r] = t3]
          /\ disk' = WriteFile(disk, PdfFile(t1), r)
          /\ fpc' = [fpc EXCEPT ![r] = "convert"]
          /\ UNCHANGED calls
       ELSE
          /\ fpc' = [fpc EXCEPT ![r] = "calling"]
          /\ calls' = IssueCall(calls, r)
          /\ UNCHANGED <<disk, tempPaths>>
    /\ UNCHANGED <<request, pc, retries, result, waits, extractedInvoices,
                   completed, responses>>

\* The top-level catch for request r (lines 189-195).
ConcCatch(r, msg) ==
    /\ Send(500, [error |-> "Failed to process invoice.", details |-> msg])
    /\ fpc' = [fpc EXCEPT ![r] = "rejected"]
    /\ completed' = Append(completed, r)

\* await poppler.convert settles for request r (lines 57-76).  The converter
\* throws (always when the PDF is gone), or writes <out_prefix>-1.png from
\* the PDF it finds; the handler then reads <tempPngPath>-1.png and unlinks
\* both of its paths.
ConcConvertSettle(r, ok) ==
    /\ fpc[r] = "convert"
    /\ LET pdf == PdfFile(tempPdfPath[r])
           png == PngFile(tempPngPath[r])
       IN
       IF ~ok \/ ~FileExists(disk, pdf) THEN
          /\ ConcCatch(r, "convert failed")
          /\ UNCHANGED <<disk, calls>>
       ELSE
          LET written == WriteFile(disk, PngFile(outPrefix[r]), ContentOf(disk, pdf)) IN
          IF ~FileExists(written, png) THEN
             \* fs.readFileSync throws ENOENT
             /\ disk' = written
             /\ ConcCatch(r, "ENOENT")
             /\ UNCHANGED calls
          ELSE
             /\ disk' = UnlinkFile(UnlinkFile(written, pdf), png)
             /\ fpc' = [fpc EXCEPT ![r] = "calling"]
             /\ calls' = IssueCall(calls, r)
             /\ UNCHANGED <<responses, completed>>
    /\ UNCHANGED <<request, pc, retries, result, waits, extractedInvoices, tempPaths>>

ConcNext ==
    \/ \E r \in Requests, t1, t2, t3 \in Clock : ConcStart(r, t1, t2, t3)
    \/ \E r \in Requests, ok \in BOOLEAN : ConcConvertSettle(r, ok)

ConcSpec == ConcInit /\ [][ConcNext]_vars

\* ------------------------------------------------------------------ claims

\* The first response sent, and the invoices array it carries.
Resp == responses[1]
Invoices == Resp.body.invoices

\* A batch handler has answered 200 with the batch result.
BatchOK ==
    /\ handler \in BatchHandlers /\ Responded
    /\ Resp.status = 200 /\ Resp.hasBody

\* Entry k of array arr stands for file i and is an error entry.
IsErrorEntryOf(arr, k, i) == arr[k].src = i /\ "error" \in DOMAIN arr[k].value

\* The pipeline of file i has failed: its callback threw, or it pushed an error.
PipelineFailed(i) ==
    \/ fpc[i] = "rejected"
    \/ \E k \in 1..Len(extractedInvoices) : IsErrorEntryOf(extractedInvoices, k, i)

\* All maxRetries attempts for file i have failed: the loop counted
\* maxRetries failures and no text was ever obtained.
Exhausted(i) == retries[i] = maxRetries /\ result[i] = <<>>

\* The request body lacks the input the handler needs.
BodyLacksInput ==
    IF handler \in BatchHandlers
      THEN \/ filesShape # "array" \/ files = <<>>
           \/ \E i \in Files : ~files[i].isObject \/ MissingFields(files[i])
      ELSE MissingFields(files[1])

NoCallIssued == \A i \in Files : calls[i] = 0

\* C1 (as claimed): in every handler that retries, no document ever sees more
\* than maxRetries = 3 calls of model.generateContent, whatever the calls do.
\* part_000 refutes it: a response without text turns its loop again with
\* `retries` unchanged, so a fourth call is issued.
C1_RetryBound ==
    handler \in RetryHandlers => \A i \in Files : calls[i] <= maxRetries

\* C2 (as claimed): under the fairness of FairSpec every request eventually
\* receives a response.  part_000 refutes it: while the model keeps answering
\* without text, its loop issues call after call and never responds.
C2_NoHang == <>Responded

\* C3 (as claimed): when a batch handler has answered and the pipeline of some
\* file has failed, the answer is the 200 batch result, in which an error
\* entry stands for each failed file.  part_000 refutes it: its callback
\* throws, Promise.all rejects and the answer is a 500.
C3_BatchIsolation ==
    (handler \in BatchHandlers /\ Responded /\ \E i \in Files : PipelineFailed(i))
      => /\ Resp.status = 200 /\ Resp.hasBody
         /\ \A i \in Files : PipelineFailed(i) =>
               \E k \in 1..Len(Invoices) : IsErrorEntryOf(Invoices, k, i)

\* C4 (as claimed): when all 3 attempts for a document have failed, the
\* response of the handler has status 500, never 200.  The batch handler of
\* extract-invoice.js refutes it: it pushes an error entry and answers 200.
C4_ExhaustionStatus ==
    \A i \in Files : (Exhausted(i) /\ Responded) => Resp.status = 500

\* C5 (as claimed, read for a well-formed body and a configured key, the
\* cases C6 does not govern): a POST whose body lacks the required input is
\* answered 400 and no external call is issued for it.  The batch handlers
\* refute it: neither validates the entries of `files`.
C5_ValidationFirst ==
    (method = "POST" /\ apiKey /\ bodyJson /\ BodyLacksInput)
      => NoCallIssued /\ (Responded => Resp.status = 400)

\* C6 (as claimed): a POST handled while GEMINI_API_KEY is not set is answered
\* 500, whatever its body, and no external call is issued.  part_000 and
\* part_001 refute it: they validate the body before they look at the key.
C6_MissingCredential ==
    (method = "POST" /\ ~apiKey)
      => NoCallIssued /\ (Responded => Resp.status = 500)

\* C7 (as claimed): when part_001 has sent its response, no temporary file of
\* the request is left on disk.  The code refutes it: the unlinks are on the
\* success path only.
C7_TempCleanup == (handler = "part_001" /\ Responded) => disk = {}

\* What the pipeline of file i pushes for the text it ended with.
ProducedFor(i) ==
    IF handler = "batch" THEN BatchEntry(result[i])
    ELSE [data |-> JSONparse(result[i]).value]

\* C8 (as claimed): in a 200 batch response, entry k of the result array is
\* the one produced for input file k.  Refuted when file 2 settles first.
C8_InputOrder == BatchOK => \A k \in 1..Len(Invoices) : Invoices[k].src = k

\* C8 (amended): in a 200 batch response, entry k of the result array is the
\* record or error produced for the k-th file whose pipeline completed: the
\* array is in completion order, not in input order.
C8_CompletionOrder ==
    BatchOK =>
      /\ [k \in 1..Len(Invoices) |-> Invoices[k].src] = completed
      /\ \A k \in 1..Len(Invoices) : Invoices[k].value = ProducedFor(Invoices[k].src)

\* C8 witness: a 200 batch response for two files of which the second
\* completed first.
C8_Witness == BatchOK /\ Len(files) = 2 /\ completed = <<2, 1>>

\* C9: a 200 batch response for N files carries exactly N entries, exactly
\* one for each file.
C9_ResultLength ==
    BatchOK =>
      /\ Len(Invoices) = Len(files)
      /\ \A i \in Files :
            Cardinality({k \in 1..Len(Invoices) : Invoices[k].src = i}) = 1

\* C9 witness: a 200 batch response for two files, one entry a record and
\* one an error.
C9_Witness ==
    /\ BatchOK /\ Len(files) = 2
    /\ \E j, k \in 1..Len(Invoices) :
          /\ "error" \in DOMAIN Invoices[j].value
          /\ "data" \in DOMAIN Invoices[k].value

\* Attempts 1 and 2 for file i failed and attempt 3 succeeded: three calls
\* were issued and the pipeline ended with the parsed object (a success ends
\* the loop, so the third call is only issued after two failures).
FailedTwiceThenSucceeded(i) ==
    calls[i] = 3 /\ fpc[i] = "resolved" /\ result[i] = <<"obj">>

\* The handler returned the successful result of file i.
ReturnedResult(i) ==
    IF handler \in BatchHandlers
      THEN \E k \in 1..Len(extractedInvoices) :
             extractedInvoices[k] = [src |-> i, value |-> [data |-> "obj"]]
      ELSE Responded /\ Resp.status = 200 /\ Resp.body = [data |-> "obj"]

\* C10 (as claimed): when attempts 1 and 2 fail and attempt 3 succeeds, the
\* result is returned after exactly two waits, of 2000 ms and 4000 ms.
\* part_000 refutes it for responses without text: it waits only in its catch.
C10_BackoffSchedule ==
    \A i \in Files :
      (handler \in RetryHandlers /\ FailedTwiceThenSucceeded(i))
        => ReturnedResult(i) /\ waits[i] = <<2000, 4000>>

\* The text t is a document between the markdown fence markers, and the
\* document it wraps.
Fenced(t) == Len(t) = 3 /\ t[1] = "fence_json" /\ t[3] = "fence"
Unwrapped(t) == <<t[2]>>

\* The pipeline of file i is over.
Settled(i) == fpc[i] \in {"resolved", "rejected"}

\* C11 (as claimed): when the model's text for a document is a valid JSON
\* object between fence markers, parsing it yields what parsing the unwrapped
\* text yields, and the handler returns that object.  Every handler refutes
\* it: the text goes to JSON.parse as it is, and the fence is a syntax error.
C11_FenceRecovery ==
    \A i \in Files :
      (Fenced(result[i]) /\ JSONparse(Unwrapped(result[i])).ok /\ Settled(i))
        => /\ JSONparse(result[i]) = JSONparse(Unwrapped(result[i]))
           /\ ReturnedResult(i)

\* The loop of file i ended with a text that JSON.parse rejects.
ParseFailed(i) == Settled(i) /\ result[i] # <<>> /\ ~JSONparse(result[i]).ok

\* The error body b carries the raw text t of the model (the envelope of the
\* specification names the field rawResponse).
CarriesRawText(b, t) ==
    "error" \in DOMAIN b /\ "rawResponse" \in DOMAIN b /\ b.rawResponse = t

\* C12 (as claimed): when the text of the model cannot be parsed, the error
\* given to the caller (the entry of the file in batch mode, else the
\* response body) carries that raw text.  The code refutes it: its parse
\* errors are fixed strings, or the message of the SyntaxError.
C12_ParseFailureDiagnosis ==
    \A i \in Files :
      ParseFailed(i) =>
        IF handler \in BatchHandlers
          THEN \E k \in 1..Len(extractedInvoices) :
                 /\ extractedInvoices[k].src = i
                 /\ CarriesRawText(extractedInvoices[k].value, result[i])
          ELSE Responded /\ CarriesRawText(Resp.body, result[i])

\* The response is a JSON error: status 400 or 500 and a body with `error`.
ErrorResponse ==
    /\ Responded /\ Resp.hasBody
    /\ Resp.status \in {400, 500} /\ "error" \in DOMAIN Resp.body

\* The handler went past its method check.
PastMethodCheck == pc # "start" /\ (handler = "part_000" \/ method = "POST")

\* Reading or destructuring the body threw: the body is no JSON document and
\* the handler got as far as reading it.
BodyReadThrew ==
    PastMethodCheck /\ ~bodyJson /\ (handler \in {"part_000", "part_001"} \/ apiKey)

\* C13: past the method check, an exception at any step (the body, the
\* conversion, the external call, the parse, the exports) ends in a JSON error
\* response: a thrown body read or a rejected pipeline always comes with an
\* error response, and no handler ends without having responded.
C13_ErrorConversion ==
    /\ BodyReadThrew => ErrorResponse
    /\ (\E i \in Files : fpc[i] = "rejected") => ErrorResponse
    /\ (PastMethodCheck /\ pc = "done") => Responded /\ Resp.hasBody

\* C13 witness: a pipeline of part_000 threw after its external call had been
\* issued, and the request has its JSON error response.
C13_Witness ==
    /\ handler = "part_000" /\ ErrorResponse
    /\ \E i \in Files : fpc[i] = "rejected" /\ calls[i] > 0

\* C14 (as claimed): a request whose method is not POST is answered 405, or
\* 200 without a body when it is OPTIONS, and nothing else is done for it: its
\* body is not read (so the answer cannot depend on it), no external call is
\* issued, no file is written.  part_000 refutes it: it has no method check,
\* so any method is processed like a POST.
C14_MethodGate ==
    (method # "POST" /\ pc # "start")
      => /\ Responded
         /\ IF method = "OPTIONS"
              THEN Resp.status = 200 /\ ~Resp.hasBody
              ELSE Resp.status = 405
         /\ NoCallIssued /\ disk = {}

\* The MIME types the specification accepts: image/* and application/pdf.
SupportedType(m) == m \in {"image/png", "application/pdf"}

\* The pipeline of file i was rejected for the type of the file.
RejectedForType(i) ==
    /\ handler = "part_000" /\ fpc[i] = "rejected"
    /\ Part000CallbackError(files[i]) = "Only PDFs are supported."

\* C15 (as claimed): a document with data and a declared type is rejected,
\* and never sent to the model, when its type is neither image/* nor
\* application/pdf, and is not rejected for its type otherwise.  The code
\* refutes both halves: part_000 rejects images, and the other handlers
\* forward any type.
C15_UnsupportedType ==
    \A i \in Files :
      (files[i].isObject /\ files[i].imageData /\ files[i].mimeType # "")
        => IF SupportedType(files[i].mimeType)
             THEN ~RejectedForType(i)
             ELSE calls[i] = 0 /\ (Settled(i) => fpc[i] = "rejected")

\* C16 (as claimed): every response that is not a 200 and carries a body
\* carries the field `error`.  The 405 responses refute it: their body is
\* { message: 'Method Not Allowed' }.
C16_ErrorEnvelope ==
    \A k \in 1..Len(responses) :
      (responses[k].status # 200 /\ responses[k].hasBody)
        => "error" \in DOMAIN responses[k].body

\* The rows of the export in the 200 response of part_000, and the invoice
\* list they were made from.
Rows == Resp.body.csv
Invoice(k) == extractedInvoices[k].value
ItemsOf(inv) == IF "lineItems" \in DOMAIN inv THEN inv.lineItems ELSE <<>>

\* max(1, number of line items), and the rows that precede those of invoice k.
RowCount(inv) == IF Len(ItemsOf(inv)) > 1 THEN Len(ItemsOf(inv)) ELSE 1
RECURSIVE RowsBefore(_)
RowsBefore(k) == IF k = 1 THEN 0 ELSE RowsBefore(k - 1) + RowCount(Invoice(k - 1))

\* C17: the export of part_000 has the sum over the invoices of
\* max(1, number of line items) rows; the rows of invoice k follow those of
\* invoice k-1, in the order of its line items; each repeats the six header
\* fields of its invoice and carries the four fields of its line item, or
\* null in these four when the invoice has no line items.
C17_ExportFlattening ==
    (handler = "part_000" /\ Responded /\ Resp.status = 200)
      => /\ Len(Rows) = RowsBefore(Len(extractedInvoices) + 1)
         /\ \A k \in 1..Len(extractedInvoices) :
              \A j \in 1..RowCount(Invoice(k)) :
                LET row == Rows[RowsBefore(k) + j] IN
                /\ DOMAIN row = HeaderFields \cup ItemFields
                /\ \A f \in HeaderFields : row[f] = Get(Invoice(k), f)
                /\ \A f \in ItemFields :
                      row[f] = IF ItemsOf(Invoice(k)) = <<>> THEN "null"
                               ELSE ItemsOf(Invoice(k))[j][f]

\* C17 witness: an export of three rows for two invoices, the first with two
\* line items and the second with no lineItems at all.
C17_Witness ==
    /\ handler = "part_000" /\ Responded /\ Resp.status = 200
    /\ Len(extractedInvoices) = 2 /\ Len(Rows) = 3
    /\ Len(ItemsOf(Invoice(1))) = 2
    /\ "lineItems" \notin DOMAIN Invoice(2)

\* C18: on every path of every handler at most one response is sent.
C18_SingleResponse == Len(responses) <= 1

\* C18 witness: two pipelines of part_000 have rejected, one of them after
\* its external call, and one response has been sent.
C18_Witness ==
    /\ handler = "part_000" /\ Len(responses) = 1
    /\ \E i, j \in Files :
          /\ i # j /\ fpc[i] = "rejected" /\ fpc[j] = "rejected" /\ calls[j] > 0

\* C19 (as claimed): once a batch handler has responded, no pipeline of the
\* request issues an external call, starts a backoff wait or pushes to the
\* result array.  Both batch handlers refute it: the rejection of one
\* pipeline is answered at once and the other pipelines are not cancelled.
C19_NoWorkAfterResponse ==
    [][(handler \in BatchHandlers /\ Responded)
         => /\ calls' = calls
            /\ waits' = waits
            /\ extractedInvoices' = extractedInvoices]_vars

\* C20 (as claimed): a backoff wait only ever separates two attempts, so no
\* pipeline waits more than maxRetries - 1 times and none waits the
\* 2^maxRetries seconds that would follow the last attempt.  part_000 refutes
\* it: its catch waits after every failure, the third included.
C20_NoTrailingBackoff ==
    \A i \in Files :
      /\ Len(waits[i]) <= maxRetries - 1
      /\ \A k \in 1..Len(waits[i]) : waits[i][k] # Backoff(maxRetries)

\* The step is the settling of a call for file i of a retrying handler with
\* outcome o, and o is a response with text.
TextSettle(i, o) ==
    /\ ~o.throws /\ o.text # <<>>
    /\ \/ BatchCallSettle(i, o)
       \/ i = 1 /\ Part001CallSettle(o)
       \/ Part000CallSettle(i, o)

\* C21 (as claimed): the first call of a document that returns text ends its
\* retry loop, whether or not the text is valid JSON: the step that receives
\* the text settles the pipeline, and a settled pipeline issues no call.
\* part_000 refutes it: its JSON.parse is inside the try of the loop, so text
\* that does not parse is counted as a failed attempt and retried.
C21_ParseFailureTerminal ==
    [][\A i \in Files :
         /\ (\E o \in CallOutcomes : TextSettle(i, o))
               => fpc'[i] \in {"resolved", "rejected"} /\ calls'[i] = calls[i]
         /\ Settled(i) => calls'[i] = calls[i]]_vars

\* C22 (as claimed): whatever the clock does between the three Date.now() of
\* part_001, the PNG file it reads and unlinks, <tempPngPath>-1.png, is the
\* file the converter writes, <out_prefix>-1.png.  The code refutes it: the
\* two names come from two evaluations of Date.now().
C22_TempPathConsistency ==
    (handler = "part_001" /\ pc # "start")
      => PngFile(tempPngPath) = PngFile(outPrefix)

\* The temporary paths request r uses between its write and its read.
PathsOf(r) == {PdfFile(tempPdfPath[r]), PngFile(tempPngPath[r]), PngFile(outPrefix[r])}

\* C23 (as claimed): two requests that part_001 converts at the same time
\* use no temporary path in common, and while a request waits for its
\* conversion the PDF at its path is the one it wrote: no other request has
\* overwritten or unlinked it.  The code refutes it: the paths are made of
\* Date.now() alone, so two requests of one millisecond share them.
C23_TempPathIsolation ==
    /\ \A r, q \in Requests :
          (r # q /\ fpc[r] = "convert" /\ fpc[q] = "convert")
            => PathsOf(r) \cap PathsOf(q) = {}
    /\ \A r \in Requests :
          fpc[r] = "convert" => FileOf(PdfFile(tempPdfPath[r]), r) \in disk

====
